---- MODULE Spec2Model ----
(***************************************************************************)
(* Model of torch_rechub/models/multi_task/dcnv2.py: the three multi-task  *)
(* heads DCN4ESMM, DCN4DCMT and DCN4DR.  One model instance is constructed *)
(* (Init) and then forward is called on it any number of times.            *)
(*                                                                         *)
(* Numbers.  Tower outputs and everything derived from them are exact      *)
(* rationals [n, d] (d > 0).  The step 1e-15 of the source is 1/Scale:     *)
(* clip_min = 1/Scale and clip_max = 1 - 1/Scale, so that the order        *)
(* 0 < clip_min < clip_max < 1 of the source is kept and products of two   *)
(* values of the grid fall strictly between grid points, as they do in     *)
(* the source.  Arithmetic on tensor elements is exact; what the dtype of   *)
(* the tensors changes is the two clamp bounds, which torch.clamp converts  *)
(* to that dtype before comparing (scalar_to).                              *)
(*                                                                         *)
(* Tensors.  A 2-D tensor is a sequence of rows, a row a sequence of       *)
(* elements.  The embedder's 3-D result is a sequence (batch) of sequences *)
(* (features) of vectors (embed_dim).                                      *)
(***************************************************************************)
EXTENDS Integers, Sequences, FiniteSets

VARIABLES
    cls,          \* the class of the instance: DCN4ESMM, DCN4DCMT or DCN4DR
    dtype,        \* the dtype of its parameters, hence of the tensors of forward
    self,         \* its attributes: user_features, item_features, tower_dims, tower_*
    calls,        \* history: the number of forward calls made
    x,            \* the batch of the last forward call that returned
    status,       \* "constructed", or how the last call ended: "returned", "raised"
    ret,          \* the tensor the last call returned
    locals        \* the last call's local tensors: tower inputs and raw predictions

vars == <<cls, dtype, self, calls, x, status, ret, locals>>

----------------------------------------------------------------------------
(* Bounds of the model.  Scale is the number of grid steps in [0,1]: it     *)
(* stands for the 1e15 of the source.                                      *)

MaxFeat == 2
MaxEmbedDim == 2
MaxBatch == 2
MaxCalls == 2
Scale == 4

FeatureValues == {0, 1}

----------------------------------------------------------------------------
(* Exact rational arithmetic *)

Rat(n, d) == [n |-> n, d |-> d]

RMul(a, b) == Rat(a.n * b.n, a.d * b.d)

RSub(a, b) == Rat(a.n * b.d - b.n * a.d, a.d * b.d)

RLt(a, b) == a.n * b.d < b.n * a.d

RLeq(a, b) == a.n * b.d <= b.n * a.d

REq(a, b) == a.n * b.d = b.n * a.d

Zero == Rat(0, 1)

One == Rat(1, 1)

clip_min == Rat(1, Scale)

clip_max == RSub(One, clip_min)

----------------------------------------------------------------------------
(* Floating-point types.  float64 holds both 1e-15 and 1-1e-15.  float32    *)
(* holds 1e-15 but its values next to 1 are 6e-8 apart, so 1-1e-15 is 1.0.   *)
(* float16 has no positive value below 6e-8, so 1e-15 is 0.0 as well.       *)

Dtypes == {"float64", "float32", "float16"}

ResolvesBelowOne(dt) == dt = "float64"

ResolvesAboveZero(dt) == dt \in {"float64", "float32"}

(* The Python scalar v as torch.clamp holds it for a tensor of dtype dt:    *)
(* a value within one step of 1 (of 0) that dt cannot tell from 1 (from 0)  *)
(* is 1 (is 0).                                                             *)
scalar_to(dt, v) ==
    IF ~ResolvesBelowOne(dt) /\ RLeq(clip_max, v) /\ RLeq(v, One) THEN One
    ELSE IF ~ResolvesAboveZero(dt) /\ RLeq(Zero, v) /\ RLeq(v, clip_min) THEN Zero
    ELSE v

----------------------------------------------------------------------------
(* Sequences *)

RECURSIVE SumSeq(_)
SumSeq(s) == IF s = <<>> THEN 0 ELSE Head(s) + SumSeq(Tail(s))

RECURSIVE Flatten(_)
Flatten(ss) == IF ss = <<>> THEN <<>> ELSE Head(ss) \o Flatten(Tail(ss))

(* A computed tensor held by its elements: the sequence f itself. *)
tensor(f) == f \o <<>>

----------------------------------------------------------------------------
(* Feature specifications: a name and an embed_dim.  The k-th user feature  *)
(* is named <<"u", k>>, the k-th item feature <<"i", k>>.                   *)

Feature(side, k, dim) == [name |-> <<side, k>>, embed_dim |-> dim]

DimLists == UNION {[1..len -> 1..MaxEmbedDim] : len \in 1..MaxFeat}

FeatureList(side, dims) == [k \in DOMAIN dims |-> Feature(side, k, dims[k])]

UserFeatureLists == {FeatureList("u", dims) : dims \in DimLists}

ItemFeatureLists == {FeatureList("i", dims) : dims \in DimLists}

----------------------------------------------------------------------------
(* Batches: a mapping from feature name to one value per example.  Each     *)
(* example carries one categorical id, read by every declared feature; the  *)
(* embedding tables of the features differ.                                 *)

Names(features) == {features[k].name : k \in DOMAIN features}

Batch(names, rows) == [nm \in names |-> rows]

BatchSize(xb) == Len(xb[CHOOSE nm \in DOMAIN xb : TRUE])

(* The batch sizes exercised: a single example and the largest batch. *)
BatchSizes == {1, MaxBatch}

----------------------------------------------------------------------------
(* Collaborators imported from ...basic.layers.  Both are taken as          *)
(* functions of their arguments: what a call may leave behind inside them   *)
(* (dropout, running statistics) is outside the file modelled here, so no   *)
(* property of this module speaks of forward's determinism across calls.    *)

(* One row of a feature's embedding table: a vector of embed_dim entries.   *)
EmbeddingTable(fea, v) ==
    tensor([k \in 1..fea.embed_dim |->
        (v * (k + fea.name[2] + (IF fea.name[1] = "i" THEN 1 ELSE -1))) % 3])

UniformDim(features) ==
    \A j, k \in DOMAIN features : features[j].embed_dim = features[k].embed_dim

(* EmbeddingLayer.forward(x, features, squeeze_dim=False): the per-feature  *)
(* vectors stacked to (batch, num_features, embed_dim); stacking vectors of *)
(* different widths raises.                                                 *)
embedding(xb, features) ==
    IF ~UniformDim(features)
    THEN [ok |-> FALSE, val |-> <<>>]
    ELSE [ok |-> TRUE,
          val |-> tensor([e \in DOMAIN xb[features[1].name] |->
                     tensor([k \in DOMAIN features |->
                        EmbeddingTable(features[k], xb[features[k].name][e])])])]

(* Learned parameters of one tower: a rising and a falling estimator, so    *)
(* that raw predictions below 0, at 0, inside (0,1), at 1 and above 1 occur. *)
TowerParams == {[weight |-> 1, bias |-> -1], [weight |-> -1, bias |-> Scale + 2]}

(* DCN4CVR(input_dims, n_cross_layers, mlp_params) *)
NewTower(input_dims, mlp_params) ==
    [input_dims |-> input_dims, mlp_params |-> mlp_params]

(* The tower's layers are built for rows of input_dims entries. *)
TowerAccepts(tower, input) ==
    \A e \in DOMAIN input : Len(input[e]) = tower.input_dims

(* DCN4CVR.forward: one prediction per example, a (batch, 1) tensor.  No    *)
(* range is imposed on the prediction.                                      *)
DCN4CVR(tower, input) ==
    tensor([e \in DOMAIN input |->
        <<Rat(tower.mlp_params.bias + tower.mlp_params.weight * SumSeq(input[e]),
              Scale)>>])

----------------------------------------------------------------------------
(* Tensor operations of torch used by the file *)

(* t.reshape(batch_size, -1) of a (batch, features, dim) tensor *)
reshape(t, batch_size) == tensor([e \in 1..batch_size |-> Flatten(t[e])])

(* torch.cat(ts, dim=1) of 2-D tensors with equally many rows *)
torch_cat(ts) ==
    tensor([e \in DOMAIN ts[1] |-> Flatten(tensor([k \in DOMAIN ts |-> ts[k][e]]))])

torch_add(a, b) ==
    tensor([e \in DOMAIN a |->
        tensor([c \in DOMAIN a[e] |->
            Rat(a[e][c].n * b[e][c].d + b[e][c].n * a[e][c].d, a[e][c].d * b[e][c].d)])])

(* torch.mul(a, b), elementwise *)
torch_mul(a, b) ==
    tensor([e \in DOMAIN a |-> tensor([c \in DOMAIN a[e] |-> RMul(a[e][c], b[e][c])])])

(* One element of torch.clamp: min(max(v, min), max) *)
clamp(v, min, max) ==
    LET lower == IF RLt(v, min) THEN min ELSE v
    IN IF RLt(max, lower) THEN max ELSE lower

(* torch.clamp(t, min=, max=), elementwise *)
torch_clamp(t, min, max) ==
    tensor([e \in DOMAIN t |-> tensor([c \in DOMAIN t[e] |-> clamp(t[e][c], min, max)])])

----------------------------------------------------------------------------
(* Construction *)

tower_dims(user_features, item_features) ==
    Len(user_features) * user_features[1].embed_dim
        + Len(item_features) * item_features[1].embed_dim

DCN4ESMM_init(user_features, item_features, cvr_mlp_params, ctr_mlp_params) ==
    LET dims == tower_dims(user_features, item_features)
    IN [user_features |-> user_features,
        item_features |-> item_features,
        tower_dims |-> dims,
        tower_cvr |-> NewTower(dims, cvr_mlp_params),
        tower_ctr |-> NewTower(dims, ctr_mlp_params)]

DCN4DCMT_init(user_features, item_features, cvr_mlp_params, counterfactual_cvr_mlp_params, ctr_mlp_params) ==
    LET dims == tower_dims(user_features, item_features)
    IN [user_features |-> user_features,
        item_features |-> item_features,
        tower_dims |-> dims,
        tower_cvr |-> NewTower(dims, cvr_mlp_params),
        tower_counterfactual_cvr |-> NewTower(dims, counterfactual_cvr_mlp_params),
        tower_ctr |-> NewTower(dims, ctr_mlp_params)]

DCN4DR_init(user_features, item_features, cvr_mlp_params, ctr_mlp_params, imputation_mlp_params) ==
    LET dims == tower_dims(user_features, item_features)
    IN [user_features |-> user_features,
        item_features |-> item_features,
        tower_dims |-> dims,
        tower_cvr |-> NewTower(dims, cvr_mlp_params),
        tower_ctr |-> NewTower(dims, ctr_mlp_params),
        tower_imputation |-> NewTower(dims, imputation_mlp_params)]

----------------------------------------------------------------------------
(* forward *)

Raised == [status |-> "raised", ret |-> <<>>, locals |-> <<>>]

Returned(ys, loc) == [status |-> "returned", ret |-> ys, locals |-> loc]

input_tower_item_first(embed_user_features, embed_item_features) ==
    torch_cat(<<embed_item_features, embed_user_features>>)

(* torch.cat((embed_user_features, embed_item_features), dim=1) *)
input_tower(embed_user_features, embed_item_features) ==
    torch_cat(<<embed_user_features, embed_item_features>>)

(* The first five statements of every forward: embed, flatten, concatenate. *)
TowerInput(slf, xb) ==
    LET eu == embedding(xb, slf.user_features)
        ei == embedding(xb, slf.item_features)
    IN IF ~eu.ok \/ ~ei.ok
       THEN [ok |-> FALSE, val |-> <<>>]
       ELSE LET batch_size == Len(eu.val)
                embed_user_features == reshape(eu.val, batch_size)
                embed_item_features == reshape(ei.val, batch_size)
            IN [ok |-> TRUE,
                val |-> input_tower(embed_user_features, embed_item_features)]

ctcvr_of_clipped(cvr_pred, ctr_pred) ==
    torch_mul(torch_clamp(cvr_pred, scalar_to(dtype, clip_min),
                          scalar_to(dtype, clip_max)),
              torch_clamp(ctr_pred, scalar_to(dtype, clip_min),
                          scalar_to(dtype, clip_max)))

(* ctcvr_pred = torch.mul(cvr_pred, ctr_pred) *)
ctcvr(cvr_pred, ctr_pred) == torch_mul(cvr_pred, ctr_pred)

(* torch.clamp(pred, min=clip_min, max=clip_max) on a tensor of the         *)
(* instance's dtype *)
clipped(pred) ==
    torch_clamp(pred, scalar_to(dtype, clip_min), scalar_to(dtype, clip_max))

DCN4ESMM_clipped_ys_ctr_first(cvr_pred, ctr_pred, ctcvr_pred) ==
    <<clipped(ctr_pred), clipped(cvr_pred), clipped(ctcvr_pred)>>

DCN4ESMM_clipped_ys(cvr_pred, ctr_pred, ctcvr_pred) ==
    <<clipped(cvr_pred), clipped(ctr_pred), clipped(ctcvr_pred)>>

DCN4ESMM_forward(slf, xb) ==
    LET inp == TowerInput(slf, xb)
    IN IF ~inp.ok THEN Raised
       ELSE IF ~TowerAccepts(slf.tower_cvr, inp.val)
               \/ ~TowerAccepts(slf.tower_ctr, inp.val) THEN Raised
       ELSE LET cvr_pred == DCN4CVR(slf.tower_cvr, inp.val)
                ctr_pred == DCN4CVR(slf.tower_ctr, inp.val)
                ctcvr_pred == ctcvr(cvr_pred, ctr_pred)
            IN Returned(torch_cat(DCN4ESMM_clipped_ys(cvr_pred, ctr_pred, ctcvr_pred)),
                        [tower_in |-> [tower_cvr |-> inp.val, tower_ctr |-> inp.val],
                         cvr_pred |-> cvr_pred, ctr_pred |-> ctr_pred,
                         ctcvr_pred |-> ctcvr_pred])

DCN4DCMT_preds_counterfactual_product(slf, inp) ==
    LET cvr_pred == DCN4CVR(slf.tower_cvr, inp)
        counterfactual_cvr_pred == DCN4CVR(slf.tower_counterfactual_cvr, inp)
        ctr_pred == DCN4CVR(slf.tower_ctr, inp)
    IN [tower_in |-> [tower_cvr |-> inp, tower_counterfactual_cvr |-> inp,
                      tower_ctr |-> inp],
        cvr_pred |-> cvr_pred,
        counterfactual_cvr_pred |-> counterfactual_cvr_pred,
        ctr_pred |-> ctr_pred,
        ctcvr_pred |-> ctcvr(counterfactual_cvr_pred, ctr_pred)]

DCN4DCMT_preds(slf, inp) ==
    LET cvr_pred == DCN4CVR(slf.tower_cvr, inp)
        counterfactual_cvr_pred == DCN4CVR(slf.tower_counterfactual_cvr, inp)
        ctr_pred == DCN4CVR(slf.tower_ctr, inp)
    IN [tower_in |-> [tower_cvr |-> inp, tower_counterfactual_cvr |-> inp,
                      tower_ctr |-> inp],
        cvr_pred |-> cvr_pred,
        counterfactual_cvr_pred |-> counterfactual_cvr_pred,
        ctr_pred |-> ctr_pred,
        ctcvr_pred |-> ctcvr(cvr_pred, ctr_pred)]

DCN4DCMT_clipped_ys(cvr_pred, counterfactual_cvr_pred, ctr_pred, ctcvr_pred) ==
    <<clipped(cvr_pred), clipped(counterfactual_cvr_pred), clipped(ctr_pred),
      clipped(ctcvr_pred)>>

DCN4DCMT_forward(slf, xb) ==
    LET inp == TowerInput(slf, xb)
    IN IF ~inp.ok THEN Raised
       ELSE IF ~TowerAccepts(slf.tower_cvr, inp.val)
               \/ ~TowerAccepts(slf.tower_counterfactual_cvr, inp.val)
               \/ ~TowerAccepts(slf.tower_ctr, inp.val) THEN Raised
       ELSE LET p == DCN4DCMT_preds(slf, inp.val)
            IN Returned(torch_cat(DCN4DCMT_clipped_ys(p.cvr_pred,
                                      p.counterfactual_cvr_pred, p.ctr_pred,
                                      p.ctcvr_pred)),
                        p)

DCN4DR_clipped_ys_aux_second(cvr_pred, ctr_pred, ctcvr_pred, imputation_pred) ==
    <<clipped(cvr_pred), clipped(imputation_pred), clipped(ctr_pred),
      clipped(ctcvr_pred)>>

DCN4DR_clipped_ys(cvr_pred, ctr_pred, ctcvr_pred, imputation_pred) ==
    <<clipped(cvr_pred), clipped(ctr_pred), clipped(ctcvr_pred),
      clipped(imputation_pred)>>

DCN4DR_forward(slf, xb) ==
    LET inp == TowerInput(slf, xb)
    IN IF ~inp.ok THEN Raised
       ELSE IF ~TowerAccepts(slf.tower_cvr, inp.val)
               \/ ~TowerAccepts(slf.tower_ctr, inp.val)
               \/ ~TowerAccepts(slf.tower_imputation, inp.val) THEN Raised
       ELSE LET cvr_pred == DCN4CVR(slf.tower_cvr, inp.val)
                ctr_pred == DCN4CVR(slf.tower_ctr, inp.val)
                ctcvr_pred == ctcvr(cvr_pred, ctr_pred)
                imputation_pred == DCN4CVR(slf.tower_imputation, inp.val)
            IN Returned(torch_cat(DCN4DR_clipped_ys(cvr_pred, ctr_pred, ctcvr_pred,
                                                    imputation_pred)),
                        [tower_in |-> [tower_cvr |-> inp.val, tower_ctr |-> inp.val,
                                       tower_imputation |-> inp.val],
                         cvr_pred |-> cvr_pred, ctr_pred |-> ctr_pred,
                         ctcvr_pred |-> ctcvr_pred,
                         imputation_pred |-> imputation_pred])

----------------------------------------------------------------------------
(* The state machine *)

Fresh(c, slf) ==
    /\ cls = c
    /\ dtype \in Dtypes
    /\ self = slf
    /\ calls = 0
    /\ x = <<>>
    /\ status = "constructed"
    /\ ret = <<>>
    /\ locals = <<>>

Init ==
    \E uf \in UserFeatureLists, itf \in ItemFeatureLists :
        \/ \E a, b \in TowerParams :
              Fresh("DCN4ESMM", DCN4ESMM_init(uf, itf, a, b))
        \/ \E a, b, c \in TowerParams :
              Fresh("DCN4DCMT", DCN4DCMT_init(uf, itf, a, b, c))
        \/ \E a, b, c \in TowerParams :
              Fresh("DCN4DR", DCN4DR_init(uf, itf, a, b, c))

DeclaredNames(slf) == Names(slf.user_features) \cup Names(slf.item_features)

Call(xb, r) ==
    /\ calls < MaxCalls
    /\ calls' = calls + 1
    /\ x' = IF r.status = "returned" THEN xb ELSE <<>>
    /\ status' = r.status
    /\ ret' = r.ret
    /\ locals' = r.locals
    /\ UNCHANGED <<cls, dtype, self>>

ForwardESMM(xb) ==
    /\ cls = "DCN4ESMM"
    /\ Call(xb, DCN4ESMM_forward(self, xb))

ForwardDCMT(xb) ==
    /\ cls = "DCN4DCMT"
    /\ Call(xb, DCN4DCMT_forward(self, xb))

ForwardDR(xb) ==
    /\ cls = "DCN4DR"
    /\ Call(xb, DCN4DR_forward(self, xb))

Next ==
    \E B \in BatchSizes : \E rows \in [1..B -> FeatureValues] :
        LET xb == Batch(DeclaredNames(self), rows)
        IN \/ ForwardESMM(xb)
           \/ ForwardDCMT(xb)
           \/ ForwardDR(xb)

Spec == Init /\ [][Next]_vars

----------------------------------------------------------------------------
(* Vocabulary of the properties *)

Called == status = "returned"

WellFormed(slf) == UniformDim(slf.user_features) /\ UniformDim(slf.item_features)

Examples == 1..BatchSize(x)

(* 1-based positions of the task columns in each class's output *)
CtrCol == IF cls = "DCN4DCMT" THEN 3 ELSE 2

CtcvrCol == IF cls = "DCN4DCMT" THEN 4 ELSE 3

Towers ==
    IF cls = "DCN4ESMM" THEN {"tower_cvr", "tower_ctr"}
    ELSE IF cls = "DCN4DCMT"
         THEN {"tower_cvr", "tower_counterfactual_cvr", "tower_ctr"}
         ELSE {"tower_cvr", "tower_ctr", "tower_imputation"}

(* The raw (unclamped) outputs of the towers in the last call *)
RawCvr(e) == locals.cvr_pred[e][1]

RawCtr(e) == locals.ctr_pred[e][1]

(* The pairs <<raw tower output, its element of the returned tensor>> of row e *)
TowerCols(e) ==
    {<<RawCvr(e), ret[e][1]>>, <<RawCtr(e), ret[e][CtrCol]>>}
        \cup (IF cls = "DCN4DCMT"
              THEN {<<locals.counterfactual_cvr_pred[e][1], ret[e][2]>>} ELSE {})
        \cup (IF cls = "DCN4DR"
              THEN {<<locals.imputation_pred[e][1], ret[e][4]>>} ELSE {})

(* out is v moved to the nearest bound of [clip_min, clip_max], or v itself *)
IsClampTo(out, v, lo, hi) ==
    /\ RLt(v, lo) => out = lo
    /\ RLt(hi, v) => out = hi
    /\ (RLeq(lo, v) /\ RLeq(v, hi)) => out = v

(* out is what the file's clamp, on a tensor of the instance's dtype, makes *)
(* of v *)
IsClampOf(out, v) ==
    IsClampTo(out, v, scalar_to(dtype, clip_min), scalar_to(dtype, clip_max))

SumDims(features) == SumSeq([k \in DOMAIN features |-> features[k].embed_dim])

(* The embeddings of one example, user features first, each group in its   *)
(* declared order *)
Embedded(features, xb, e) ==
    Flatten([k \in DOMAIN features |->
                EmbeddingTable(features[k], xb[features[k].name][e])])

----------------------------------------------------------------------------
(* C1, as stated: every element of a returned tensor lies strictly inside   *)
(* the open interval (clip_min, clip_max), whatever the towers produce.     *)
C1_OpenInterval ==
    Called =>
        \A e \in DOMAIN ret : \A c \in DOMAIN ret[e] :
            RLt(clip_min, ret[e][c]) /\ RLt(ret[e][c], clip_max)

(* C2: in every class the ctcvr column is the clamp, applied once, of the   *)
(* product of the unclamped cvr and ctr tower outputs.                      *)
C2_CtcvrClampsRawProduct ==
    Called =>
        \A e \in Examples :
            IsClampOf(ret[e][CtcvrCol], RMul(RawCvr(e), RawCtr(e)))

(* A row whose ctcvr differs from what the clamped cvr and ctr columns would *)
(* give, clamped again or not *)
C2_Witness ==
    /\ Called
    /\ \E e \in Examples :
          LET twice == RMul(ret[e][1], ret[e][CtrCol])
          IN /\ ~REq(ret[e][CtcvrCol], twice)
             /\ ~IsClampOf(ret[e][CtcvrCol], twice)

(* C3: DCN4ESMM.forward returns B rows of 3 columns, clamped cvr, clamped   *)
(* ctr, clamped ctcvr in that order, and returns for every batch when each  *)
(* feature group has one embed_dim.                                         *)
C3_EsmmShapeAndOrder ==
    cls = "DCN4ESMM" =>
        /\ (calls > 0 /\ WellFormed(self)) => Called
        /\ Called =>
            /\ Len(ret) = BatchSize(x)
            /\ \A e \in Examples :
                /\ Len(ret[e]) = 3
                /\ IsClampOf(ret[e][1], RawCvr(e))
                /\ IsClampOf(ret[e][2], RawCtr(e))
                /\ IsClampOf(ret[e][3], RMul(RawCvr(e), RawCtr(e)))

(* A two-row DCN4ESMM result whose three columns differ pairwise *)
C3_Witness ==
    /\ cls = "DCN4ESMM" /\ Called /\ BatchSize(x) = 2
    /\ \E e \in Examples :
          /\ ~REq(ret[e][1], ret[e][2])
          /\ ~REq(ret[e][1], ret[e][3])
          /\ ~REq(ret[e][2], ret[e][3])

(* C4: DCN4DCMT.forward returns B rows of 4 columns cvr, counterfactual_cvr, *)
(* ctr, ctcvr; with another counterfactual tower and the same cvr and ctr   *)
(* towers, columns 0, 2 and 3 are the same.                                 *)
C4_DcmtOrderAndFrame ==
    cls = "DCN4DCMT" =>
        /\ (calls > 0 /\ WellFormed(self)) => Called
        /\ Called =>
            /\ Len(ret) = BatchSize(x)
            /\ \A e \in Examples :
                /\ Len(ret[e]) = 4
                /\ IsClampOf(ret[e][1], RawCvr(e))
                /\ IsClampOf(ret[e][2], locals.counterfactual_cvr_pred[e][1])
                /\ IsClampOf(ret[e][3], RawCtr(e))
                /\ IsClampOf(ret[e][4], RMul(RawCvr(e), RawCtr(e)))
            /\ \A w \in TowerParams :
                LET other == DCN4DCMT_forward(
                        [self EXCEPT !.tower_counterfactual_cvr.mlp_params = w], x)
                IN /\ other.status = "returned"
                   /\ \A e \in Examples : \A c \in {1, 3, 4} :
                         other.ret[e][c] = ret[e][c]

(* A DCN4DCMT result that another counterfactual tower changes (in column 1) *)
C4_Witness ==
    /\ cls = "DCN4DCMT" /\ Called
    /\ \E w \in TowerParams : \E e \in Examples :
          DCN4DCMT_forward(
              [self EXCEPT !.tower_counterfactual_cvr.mlp_params = w], x).ret[e][2]
            # ret[e][2]

(* C5: DCN4DR.forward returns B rows of 4 columns cvr, ctr, ctcvr,           *)
(* imputation: the imputation tower's clamped output is last and is not a   *)
(* factor of ctcvr.                                                          *)
C5_DrShapeAndOrder ==
    cls = "DCN4DR" =>
        /\ (calls > 0 /\ WellFormed(self)) => Called
        /\ Called =>
            /\ Len(ret) = BatchSize(x)
            /\ \A e \in Examples :
                /\ Len(ret[e]) = 4
                /\ IsClampOf(ret[e][1], RawCvr(e))
                /\ IsClampOf(ret[e][2], RawCtr(e))
                /\ IsClampOf(ret[e][3], RMul(RawCvr(e), RawCtr(e)))
                /\ IsClampOf(ret[e][4], locals.imputation_pred[e][1])

(* A one-row DCN4DR result whose imputation column differs from its ctr and *)
(* ctcvr columns *)
C5_Witness ==
    /\ cls = "DCN4DR" /\ Called /\ BatchSize(x) = 1
    /\ ~REq(ret[1][4], ret[1][2])
    /\ ~REq(ret[1][4], ret[1][3])

(* C6, as stated: tower_dims is the sum of embed_dim over the user features *)
(* plus the sum over the item features, for every constructed model.        *)
C6_TowerDimsIsSum ==
    self.tower_dims = SumDims(self.user_features) + SumDims(self.item_features)

(* C8: every tower of the class is evaluated on the same input: per example *)
(* the user features' embeddings in declared order, then the item features'. *)
C8_TowersShareInput ==
    Called =>
        /\ DOMAIN locals.tower_in = Towers
        /\ \A t \in Towers :
              locals.tower_in[t] =
                  [e \in Examples |->
                      Embedded(self.user_features, x, e)
                          \o Embedded(self.item_features, x, e)]

(* A three-tower call in which the order of the two groups shows *)
C8_Witness ==
    /\ Called /\ cls = "DCN4DR"
    /\ \E e \in Examples :
          Embedded(self.user_features, x, e) \o Embedded(self.item_features, x, e)
            # Embedded(self.item_features, x, e) \o Embedded(self.user_features, x, e)

(* C9, as stated: raw tower outputs outside [0,1] do not make forward raise *)
(* (only a feature group of mixed embed_dim does), and each tower's column  *)
(* is clip_min for a raw value below it, clip_max for a raw value above it, *)
(* and the raw value itself when it lies in [clip_min, clip_max].           *)
C9_OutOfRangeIsClamped ==
    /\ status = "raised" => ~WellFormed(self)
    /\ Called =>
          \A e \in Examples : \A p \in TowerCols(e) :
              IsClampTo(p[2], p[1], clip_min, clip_max)

(* C10: when the raw cvr and ctr of a row both lie in [0,1], the row's      *)
(* ctcvr is at most its cvr and at most its ctr.                            *)
C10_CtcvrAtMostFactors ==
    Called =>
        \A e \in Examples :
            (/\ RLeq(Zero, RawCvr(e)) /\ RLeq(RawCvr(e), One)
             /\ RLeq(Zero, RawCtr(e)) /\ RLeq(RawCtr(e), One))
            => /\ RLeq(ret[e][CtcvrCol], ret[e][1])
               /\ RLeq(ret[e][CtcvrCol], ret[e][CtrCol])

(* A row with both raw values strictly inside (0,1) and a product below     *)
(* clip_min, clamped up to it *)
C10_Witness ==
    /\ Called
    /\ \E e \in Examples :
          /\ RLt(Zero, RawCvr(e)) /\ RLt(RawCvr(e), One)
          /\ RLt(Zero, RawCtr(e)) /\ RLt(RawCtr(e), One)
          /\ RLt(RMul(RawCvr(e), RawCtr(e)), clip_min)
          /\ ret[e][CtcvrCol] = clip_min

====
